---- MODULE Spec2Model ----
(***************************************************************************)
(* A model of exam_grading_system.py: the four deterministic helpers       *)
(* (extract_pdf_text, extract_json_from_text, calculate_grade,             *)
(* save_results_to_file) and the run_grading_system driver with the agent  *)
(* wiring it hands to the runner.                                          *)
(*                                                                         *)
(* Text is a sequence of one-character strings.  A JSON value, as Python   *)
(* holds it after json.loads, is a record [t, v]:                          *)
(*   t = "num", v an integer;    t = "str", v a sequence of characters;    *)
(*   t = "arr", v a sequence of values;                                    *)
(*   t = "obj", v a sequence of <<key, value>> pairs in insertion order,   *)
(*              keys distinct (a Python dict).                             *)
(* The alphabet of the checked texts has no backslash, no sign, no         *)
(* fraction and none of the letters of true/false/null/NaN/Infinity, so    *)
(* escapes, floats and literals are outside the checked bounds.            *)
(***************************************************************************)
EXTENDS Integers, Sequences, FiniteSets, TLC

VARIABLES
    comp,       \* which component this behaviour exercises
    pc,         \* position of the component's code
    text,       \* extract_json_from_text: the input text
    jv,         \* the JSON value the text was built from (NoVal if none)
    wrap,       \* how the text was built from jv
    result,     \* extract_json_from_text: what the call produced
    percentage, \* calculate_grade: the input, in 1/Scale of a percent
    grade,      \* calculate_grade: the letter returned ("" before the call)
    pdf,        \* extract_pdf_text: the file at pdf_path
    docType,    \* which process_* tool runs
    pageNum,    \* extract_pdf_text: page_num of the loop
    pdfText,    \* extract_pdf_text: the local variable text
    failed,     \* extract_pdf_text: the except branch ran
    doc,        \* the dictionary the process_* tool returned
    fs,         \* the files, by absolute path
    nSaves,     \* save_results_to_file: how many calls were made
    call,       \* save_results_to_file: the arguments of the last call
    before,     \* the file at the last call's path as it was before the call
    outcome,    \* save_results_to_file: the string the last call returned
    raised,     \* save_results_to_file: the last call raised instead
    credential, \* GOOGLE_API_KEY is set in the environment
    exists,     \* os.path.exists of each of the three input paths
    checkIdx,   \* run_grading_system: position in the loop over the paths
    reported,   \* the input reported NOT FOUND ("" if none)
    runnerCreated,  \* InMemoryRunner(...) was constructed
    sessionCreated, \* create_session(...) was awaited
    llmCalls,   \* requests made to the reasoning service
    agent,      \* the agent that answers the next request
    processed,  \* how often each process_* tool ran
    schemaText, \* the last response of QuestionSchemaAnalyzer
    nSchema,    \* responses of QuestionSchemaAnalyzer
    nEval,      \* responses of AnswerEvaluator
    nGrade,     \* calls of the calculate_grade tool
    ret,        \* what run_grading_system returned ("" while it runs)
    exitCode    \* the code the process exited with (-1 while it runs)

jsonVars == <<text, jv, wrap, result>>
gradeVars == <<percentage, grade>>
pdfVars == <<pdf, docType, pageNum, pdfText, failed, doc>>
writerVars == <<fs, nSaves, call, before, outcome, raised>>
runVars == <<credential, exists, checkIdx, reported, runnerCreated, sessionCreated,
             llmCalls, agent, processed, schemaText, nSchema, nEval, nGrade, ret,
             exitCode>>
vars == <<comp, pc, jsonVars, gradeVars, pdfVars, writerVars, runVars>>

-----------------------------------------------------------------------------
(* Bounds *)

MaxStrLen == 3
MaxPieces == 4
MaxPercent == 150      \* percentages up to MaxPercent are graded
MaxBelowZero == 5      \* and down to -MaxBelowZero
Scale == 1000          \* in steps of 1/Scale of a percent
MaxPages == 3
MaxSaves == 2
MaxLlmCalls == 4

-----------------------------------------------------------------------------
(* JSON values *)

NoVal == [t |-> "none", v |-> 0]
JNum(n) == [t |-> "num", v |-> n]
JStr(cs) == [t |-> "str", v |-> cs]
JArr(xs) == [t |-> "arr", v |-> xs]
JObj(ps) == [t |-> "obj", v |-> ps]

\* Python's ==, on the values json.loads yields: lists by position, dicts
\* by key whatever the insertion order.
RECURSIVE PyEq(_, _)
PyEq(a, b) ==
    /\ a.t = b.t
    /\ CASE a.t = "arr" ->
              /\ Len(a.v) = Len(b.v)
              /\ \A i \in 1..Len(a.v) : PyEq(a.v[i], b.v[i])
         [] a.t = "obj" ->
              /\ Len(a.v) = Len(b.v)
              /\ \A i \in 1..Len(a.v) :
                    \E j \in 1..Len(b.v) :
                        /\ a.v[i][1] = b.v[j][1]
                        /\ PyEq(a.v[i][2], b.v[j][2])
         [] OTHER -> a.v = b.v

-----------------------------------------------------------------------------
(* json.loads *)

Whitespace == {" ", "\n"}
ControlChars == {"\n"}
DigitChars == <<"0", "1", "2", "3", "4", "5", "6", "7", "8", "9">>
Digits == {DigitChars[i] : i \in 1..10}
DigitVal(c) == (CHOOSE i \in 1..10 : DigitChars[i] = c) - 1

ScanFail(i) == [ok |-> FALSE, val |-> NoVal, next |-> i]
ScanOk(v, i) == [ok |-> TRUE, val |-> v, next |-> i]

RECURSIVE SkipWs(_, _)
SkipWs(s, i) ==
    IF i <= Len(s) /\ s[i] \in Whitespace THEN SkipWs(s, i + 1) ELSE i

\* py_scanstring, strict: from the character after the opening quote.
RECURSIVE ScanString(_, _, _)
ScanString(s, i, acc) ==
    IF i > Len(s) THEN ScanFail(i)
    ELSE IF s[i] = "\"" THEN ScanOk(JStr(acc), i + 1)
    ELSE IF s[i] \in ControlChars THEN ScanFail(i)
    ELSE ScanString(s, i + 1, Append(acc, s[i]))

\* NUMBER_RE, integer part: 0 | [1-9][0-9]*
RECURSIVE ScanDigits(_, _, _)
ScanDigits(s, i, n) ==
    IF i <= Len(s) /\ s[i] \in Digits
    THEN ScanDigits(s, i + 1, 10 * n + DigitVal(s[i]))
    ELSE ScanOk(JNum(n), i)

ScanNumber(s, i) ==
    IF s[i] = "0" THEN ScanOk(JNum(0), i + 1) ELSE ScanDigits(s, i, 0)

\* dict(pairs): a repeated key keeps its first place and its last value.
RECURSIVE DictSet(_, _, _)
DictSet(ps, k, v) ==
    IF ps = <<>> THEN <<  <<k, v>>  >>
    ELSE IF Head(ps)[1] = k THEN << <<k, v>> >> \o Tail(ps)
    ELSE <<Head(ps)>> \o DictSet(Tail(ps), k, v)

RECURSIVE ScanOnce(_, _), ScanArrayItems(_, _, _), ScanObjectItems(_, _, _)
JSONArray(s, i) ==
    LET j == SkipWs(s, i) IN
    IF j <= Len(s) /\ s[j] = "]" THEN ScanOk(JArr(<<>>), j + 1)
    ELSE ScanArrayItems(s, j, <<>>)

JSONObject(s, i) ==
    LET j == SkipWs(s, i) IN
    IF j > Len(s) THEN ScanFail(j)
    ELSE IF s[j] = "}" THEN ScanOk(JObj(<<>>), j + 1)
    ELSE IF s[j] = "\"" THEN ScanObjectItems(s, j + 1, <<>>)
    ELSE ScanFail(j)

ScanOnce(s, i) ==
    IF i > Len(s) THEN ScanFail(i)
    ELSE IF s[i] = "\"" THEN ScanString(s, i + 1, <<>>)
    ELSE IF s[i] = "{" THEN JSONObject(s, i + 1)
    ELSE IF s[i] = "[" THEN JSONArray(s, i + 1)
    ELSE IF s[i] \in Digits THEN ScanNumber(s, i)
    ELSE ScanFail(i)

ScanArrayItems(s, i, acc) ==
    LET r == ScanOnce(s, i) IN
    IF ~r.ok THEN ScanFail(i)
    ELSE LET j == SkipWs(s, r.next)
             acc2 == Append(acc, r.val)
         IN IF j > Len(s) THEN ScanFail(j)
            ELSE IF s[j] = "]" THEN ScanOk(JArr(acc2), j + 1)
            ELSE IF s[j] = "," THEN ScanArrayItems(s, SkipWs(s, j + 1), acc2)
            ELSE ScanFail(j)

\* i is the character after the opening quote of a key
ScanObjectItems(s, i, acc) ==
    LET k == ScanString(s, i, <<>>) IN
    IF ~k.ok THEN ScanFail(i)
    ELSE LET c == SkipWs(s, k.next) IN
         IF c > Len(s) \/ s[c] # ":" THEN ScanFail(c)
         ELSE LET r == ScanOnce(s, SkipWs(s, c + 1)) IN
              IF ~r.ok THEN ScanFail(c)
              ELSE LET j == SkipWs(s, r.next)
                       acc2 == DictSet(acc, k.val.v, r.val)
                   IN IF j > Len(s) THEN ScanFail(j)
                      ELSE IF s[j] = "}" THEN ScanOk(JObj(acc2), j + 1)
                      ELSE IF s[j] = ","
                           THEN LET q == SkipWs(s, j + 1) IN
                                IF q <= Len(s) /\ s[q] = "\""
                                THEN ScanObjectItems(s, q + 1, acc2)
                                ELSE ScanFail(q)
                      ELSE ScanFail(j)

\* JSONDecoder.decode: one value, whitespace around it, nothing else.
JsonLoads(s) ==
    LET r == ScanOnce(s, SkipWs(s, 1)) IN
    IF r.ok /\ SkipWs(s, r.next) = Len(s) + 1
    THEN [ok |-> TRUE, val |-> r.val]
    ELSE [ok |-> FALSE, val |-> NoVal]

-----------------------------------------------------------------------------
(* json.dumps / json.dump(indent=...) *)

RECURSIVE IntToChars(_)
IntToChars(n) ==
    IF n < 10 THEN <<DigitChars[n + 1]>>
    ELSE IntToChars(n \div 10) \o <<DigitChars[(n % 10) + 1]>>

RECURSIVE Spaces(_)
Spaces(n) == IF n = 0 THEN <<>> ELSE <<" ">> \o Spaces(n - 1)

\* indent < 0 stands for indent=None
NewlineIndent(indent, level) ==
    IF indent < 0 THEN <<>> ELSE <<"\n">> \o Spaces(indent * level)
ItemSeparator(indent, level) ==
    IF indent < 0 THEN <<",", " ">> ELSE <<",">> \o NewlineIndent(indent, level)

RECURSIVE JsonDumps(_, _, _), DumpItems(_, _, _, _), DumpPairs(_, _, _, _)
JsonDumps(v, indent, level) ==
    IF v.t = "num" THEN IntToChars(v.v)
    ELSE IF v.t = "str" THEN <<"\"">> \o v.v \o <<"\"">>
    ELSE IF v.t = "arr" THEN
        IF v.v = <<>> THEN <<"[", "]">>
        ELSE <<"[">> \o NewlineIndent(indent, level + 1)
                \o DumpItems(v.v, 1, indent, level + 1)
                \o NewlineIndent(indent, level) \o <<"]">>
    ELSE IF v.v = <<>> THEN <<"{", "}">>
         ELSE <<"{">> \o NewlineIndent(indent, level + 1)
                 \o DumpPairs(v.v, 1, indent, level + 1)
                 \o NewlineIndent(indent, level) \o <<"}">>

DumpItems(xs, i, indent, level) ==
    JsonDumps(xs[i], indent, level)
      \o (IF i = Len(xs) THEN <<>>
          ELSE ItemSeparator(indent, level) \o DumpItems(xs, i + 1, indent, level))

DumpPairs(ps, i, indent, level) ==
    <<"\"">> \o ps[i][1] \o <<"\"", ":", " ">>
      \o JsonDumps(ps[i][2], indent, level)
      \o (IF i = Len(ps) THEN <<>>
          ELSE ItemSeparator(indent, level) \o DumpPairs(ps, i + 1, indent, level))

-----------------------------------------------------------------------------
(* Python str operations used by extract_json_from_text *)

StartsAt(s, pat, i) ==
    /\ i + Len(pat) - 1 <= Len(s)
    /\ SubSeq(s, i, i + Len(pat) - 1) = pat

\* position (from 1) of the leftmost occurrence of pat at or after i; 0 if none
RECURSIVE Find(_, _, _)
Find(s, pat, i) ==
    IF i + Len(pat) - 1 > Len(s) THEN 0
    ELSE IF StartsAt(s, pat, i) THEN i
    ELSE Find(s, pat, i + 1)

\* pat in s
Contains(s, pat) == Find(s, pat, 1) # 0

\* s.split(sep): the parts between the successive occurrences of sep
RECURSIVE Split(_, _)
Split(s, sep) ==
    LET i == Find(s, sep, 1) IN
    IF i = 0 THEN <<s>>
    ELSE <<SubSeq(s, 1, i - 1)>> \o Split(SubSeq(s, i + Len(sep), Len(s)), sep)

RECURSIVE LStrip(_)
LStrip(s) ==
    IF s # <<>> /\ Head(s) \in Whitespace THEN LStrip(Tail(s)) ELSE s

RECURSIVE RStrip(_)
RStrip(s) ==
    IF s # <<>> /\ s[Len(s)] \in Whitespace
    THEN RStrip(SubSeq(s, 1, Len(s) - 1)) ELSE s

\* s.strip()
Strip(s) == RStrip(LStrip(s))

\* s.find(c) and s.rfind(c), with Python's indices from 0 and -1 for none
PyFind(s, c) ==
    IF \E i \in 1..Len(s) : s[i] = c
    THEN (CHOOSE i \in 1..Len(s) : s[i] = c /\ \A j \in 1..(i - 1) : s[j] # c) - 1
    ELSE -1
PyRFind(s, c) ==
    IF \E i \in 1..Len(s) : s[i] = c
    THEN (CHOOSE i \in 1..Len(s) : s[i] = c /\ \A j \in (i + 1)..Len(s) : s[j] # c) - 1
    ELSE -1

\* s[start:end] for 0 <= start < end <= len(s)
Slice(s, start, end) == SubSeq(s, start + 1, end)

-----------------------------------------------------------------------------
(* extract_json_from_text *)

\* A TLA+ string cannot hold the backtick character: "'" stands for it.
Backtick == "'"
Fence == <<Backtick, Backtick, Backtick>>
FenceJson == Fence \o <<"j", "s", "o", "n">>

Returned(v) == [kind |-> "return", val |-> v]
Raised(e) == [kind |-> e, val |-> NoVal]
NotCalled == [kind |-> "none", val |-> NoVal]

\* the final "return json.loads(json_str)": its JSONDecodeError propagates
LoadsOrRaise(s) ==
    LET r == JsonLoads(s) IN
    IF r.ok THEN Returned(r.val) ELSE Raised("JSONDecodeError")

\* mutant: any fence is looked for before the "json" fence
extract_json_any_fence_first(t) ==
    LET direct == JsonLoads(t) IN
    IF direct.ok THEN Returned(direct.val)
    ELSE IF Contains(t, Fence)
         THEN LoadsOrRaise(Strip(Split(Split(t, Fence)[2], Fence)[1]))
    ELSE IF Contains(t, FenceJson)
         THEN LoadsOrRaise(Strip(Split(Split(t, FenceJson)[2], Fence)[1]))
    ELSE LET start == PyFind(t, "{")
             end == PyRFind(t, "}") + 1
         IN IF start # -1 /\ end > start
            THEN LoadsOrRaise(Slice(t, start, end))
            ELSE Raised("NoJsonFound")

extract_json_from_text(t) ==
    LET direct == JsonLoads(t) IN
    IF direct.ok THEN Returned(direct.val)
    ELSE IF Contains(t, FenceJson)
         THEN LoadsOrRaise(Strip(Split(Split(t, FenceJson)[2], Fence)[1]))
    ELSE IF Contains(t, Fence)
         THEN LoadsOrRaise(Strip(Split(Split(t, Fence)[2], Fence)[1]))
    ELSE LET start == PyFind(t, "{")
             end == PyRFind(t, "}") + 1
         IN IF start # -1 /\ end > start
            THEN LoadsOrRaise(Slice(t, start, end))
            ELSE Raised("NoJsonFound")

-----------------------------------------------------------------------------
(* Inputs of the JSON checks *)

StrChars == {"a", Backtick, "}"}
RECURSIVE SeqsUpTo(_, _)
SeqsUpTo(S, n) ==
    IF n = 0 THEN {<<>>}
    ELSE LET shorter == SeqsUpTo(S, n - 1) IN
         shorter \cup {Append(q, c) : q \in shorter, c \in S}

Strs == SeqsUpTo(StrChars, MaxStrLen)
Keys == {<<"a">>, Fence}
Scalars == {JNum(n) : n \in {0, 1, 12}} \cup {JStr(cs) : cs \in Strs}
Level1 ==
    Scalars \cup {JArr(<<>>), JObj(<<>>)}
      \cup {JArr(<<x>>) : x \in Scalars}
      \cup {JArr(<<JNum(1), x>>) : x \in Scalars}
      \cup {JObj(<< <<k, x>> >>) : k \in Keys, x \in Scalars}
      \cup {JObj(<< <<(<<"a">>), JNum(1)>>, <<(<<"}">>), x>> >>) : x \in Scalars}
JsonValues ==
    Level1 \cup {JArr(<<x>>) : x \in Level1}
      \cup {JObj(<< <<(<<"a">>), x>> >>) : x \in Level1}

Wraps == {"plain", "indent", "fence_json", "fence", "prose"}
Wrapped(v, w) ==
    CASE w = "plain" -> JsonDumps(v, -1, 0)
      [] w = "indent" -> JsonDumps(v, 2, 0)
      [] w = "fence_json" -> FenceJson \o <<"\n">> \o JsonDumps(v, -1, 0) \o <<"\n">> \o Fence
      [] w = "fence" -> Fence \o <<"\n">> \o JsonDumps(v, 2, 0) \o <<"\n">> \o Fence
      [] w = "prose" -> <<"a", " ">> \o JsonDumps(v, -1, 0) \o <<" ", "a">>

Pieces ==
    { Fence, FenceJson, <<"{">>, <<"}">>, <<"[", "1", "]">>, <<"1">>,
      <<"\"", "a", "\"", ":", "1">>, <<"a">>, <<" ">>, <<"\n">> }
RECURSIVE Concats(_)
Concats(n) ==
    IF n = 0 THEN {<<>>}
    ELSE LET shorter == Concats(n - 1) IN
         shorter \cup {q \o p : q \in shorter, p \in Pieces}
PieceTexts == Concats(MaxPieces)

-----------------------------------------------------------------------------
(* The JSON Extractor applied to one text *)

IdleJson == text = <<>> /\ jv = NoVal /\ wrap = "none" /\ result = NotCalled
IdleGrade == percentage = 0 /\ grade = ""
NoDoc == [text |-> <<>>, path |-> "", type |-> "", char_count |-> 0]
IdlePdf ==
    /\ pdf = [kind |-> "none", pages |-> <<>>]
    /\ docType = ""
    /\ pageNum = 0
    /\ pdfText = <<>>
    /\ failed = FALSE
    /\ doc = NoDoc
NoOutcome == [kind |-> "none", detail |-> <<>>]
Absent == [exists |-> FALSE, data |-> <<>>]
File(data) == [exists |-> TRUE, data |-> data]
Str(chars) == [isStr |-> TRUE, chars |-> chars]
NotAString == [isStr |-> FALSE, chars |-> <<>>]
NoCall == [results_json |-> NotAString, filename |-> [abs |-> FALSE, parts |-> <<>>],
           space |-> 0]
IdleWriter ==
    /\ fs = <<>>
    /\ nSaves = 0
    /\ call = NoCall
    /\ before = Absent
    /\ outcome = NoOutcome
    /\ raised = FALSE
DocTypes == {"question_paper", "answer_sheet", "textbook"}
IdleRun ==
    /\ credential = TRUE
    /\ exists = [d \in DocTypes |-> TRUE]
    /\ checkIdx = 0
    /\ reported = ""
    /\ runnerCreated = FALSE
    /\ sessionCreated = FALSE
    /\ llmCalls = 0
    /\ agent = ""
    /\ processed = [d \in DocTypes |-> 0]
    /\ schemaText = <<>>
    /\ nSchema = 0
    /\ nEval = 0
    /\ nGrade = 0
    /\ ret = ""
    /\ exitCode = -1

InitJson ==
    /\ comp = "json"
    /\ pc = "start"
    /\ IdleGrade
    /\ IdlePdf
    /\ IdleWriter
    /\ result = NotCalled
    /\ \/ /\ wrap \in Wraps
          /\ jv \in JsonValues
          /\ text = Wrapped(jv, wrap)
       \/ /\ wrap = "pieces"
          /\ jv = NoVal
          /\ text \in PieceTexts
    /\ IdleRun

ExtractJson ==
    /\ comp = "json"
    /\ pc = "start"
    /\ result' = extract_json_from_text(text)
    /\ pc' = "done"
    /\ UNCHANGED <<comp, text, jv, wrap, gradeVars, pdfVars, writerVars, runVars>>

NextJson == ExtractJson
SpecJson == InitJson /\ [][NextJson]_vars

-----------------------------------------------------------------------------
(* calculate_grade *)

\* mutant: the top band starts above 90, not at 90
calculate_grade_above(p) ==
    IF p > 90 * Scale THEN "A+"
    ELSE IF p >= 80 * Scale THEN "A"
    ELSE IF p >= 70 * Scale THEN "B"
    ELSE IF p >= 60 * Scale THEN "C"
    ELSE IF p >= 50 * Scale THEN "D"
    ELSE "F"

calculate_grade(p) ==
    IF p >= 90 * Scale THEN "A+"
    ELSE IF p >= 80 * Scale THEN "A"
    ELSE IF p >= 70 * Scale THEN "B"
    ELSE IF p >= 60 * Scale THEN "C"
    ELSE IF p >= 50 * Scale THEN "D"
    ELSE "F"

Percentages == (-(MaxBelowZero * Scale))..(MaxPercent * Scale)

InitGrade ==
    /\ comp = "grade"
    /\ pc = "start"
    /\ percentage \in Percentages
    /\ grade = ""
    /\ IdleJson
    /\ IdlePdf
    /\ IdleWriter
    /\ IdleRun

CalculateGrade ==
    /\ comp = "grade"
    /\ pc = "start"
    /\ grade' = calculate_grade(percentage)
    /\ pc' = "done"
    /\ UNCHANGED <<comp, percentage, jsonVars, pdfVars, writerVars, runVars>>

NextGrade == CalculateGrade
SpecGrade == InitGrade /\ [][NextGrade]_vars

-----------------------------------------------------------------------------
(* extract_pdf_text and the process_* tools *)

\* What page.extract_text() does on a page: returns its text, or raises.
PageTexts == {<<>>, <<"a">>}
Pages == [raises : {FALSE}, text : PageTexts] \cup {[raises |-> TRUE, text |-> <<>>]}
RECURSIVE PageSeqs(_)
PageSeqs(n) ==
    IF n = 0 THEN {<<>>}
    ELSE LET shorter == PageSeqs(n - 1) IN
         shorter \cup {Append(q, p) : q \in shorter, p \in Pages}

\* The file at pdf_path: absent, not a readable PDF, or a PDF with its pages.
PdfFiles ==
    {[kind |-> "missing", pages |-> <<>>], [kind |-> "corrupt", pages |-> <<>>]}
      \cup {[kind |-> "pdf", pages |-> ps] : ps \in PageSeqs(MaxPages)}

\* f"\n--- Page {page_num} ---\n{page_text}\n"
PageBlock(n, pageText) ==
    <<"\n", "-", "-", "-", " ", "P", "a", "g", "e", " ">> \o IntToChars(n)
      \o <<" ", "-", "-", "-", "\n">> \o pageText \o <<"\n">>

InitPdf ==
    /\ comp = "pdf"
    /\ pc = "start"
    /\ pdf \in PdfFiles
    /\ docType \in DocTypes
    /\ pageNum = 0
    /\ pdfText = <<>>
    /\ failed = FALSE
    /\ doc = NoDoc
    /\ IdleJson
    /\ IdleGrade
    /\ IdleWriter
    /\ IdleRun

\* text = ""; open(pdf_path, 'rb'); PyPDF2.PdfReader(file); len(pdf_reader.pages)
OpenPdf ==
    /\ comp = "pdf"
    /\ pc = "start"
    /\ IF pdf.kind = "pdf"
       THEN pc' = "pages" /\ pageNum' = 1 /\ failed' = FALSE
       ELSE pc' = "return" /\ failed' = TRUE /\ UNCHANGED pageNum
    /\ UNCHANGED <<comp, pdf, docType, pdfText, doc, jsonVars, gradeVars, writerVars, runVars>>

\* one turn of "for page_num, page in enumerate(pdf_reader.pages, 1)"
ReadPage ==
    /\ comp = "pdf"
    /\ pc = "pages"
    /\ pageNum <= Len(pdf.pages)
    /\ IF pdf.pages[pageNum].raises
       THEN pc' = "return" /\ failed' = TRUE /\ UNCHANGED <<pageNum, pdfText>>
       ELSE /\ pdfText' = pdfText \o PageBlock(pageNum, pdf.pages[pageNum].text)
            /\ pageNum' = pageNum + 1
            /\ UNCHANGED <<pc, failed>>
    /\ UNCHANGED <<comp, pdf, docType, doc, jsonVars, gradeVars, writerVars, runVars>>

\* the loop ends: the with block closes the file
EndPages ==
    /\ comp = "pdf"
    /\ pc = "pages"
    /\ pageNum > Len(pdf.pages)
    /\ pc' = "return"
    /\ UNCHANGED <<comp, pdf, docType, pageNum, pdfText, failed, doc, jsonVars, gradeVars, writerVars, runVars>>

\* "return text", and the dictionary process_<docType> builds around it
ReturnDocument ==
    /\ comp = "pdf"
    /\ pc = "return"
    /\ doc' = [text |-> pdfText, path |-> "pdf_path", type |-> docType,
               char_count |-> Len(pdfText)]
    /\ pc' = "done"
    /\ UNCHANGED <<comp, pdf, docType, pageNum, pdfText, failed, jsonVars, gradeVars, writerVars, runVars>>

NextPdf == OpenPdf \/ ReadPage \/ EndPages \/ ReturnDocument
SpecPdf == InitPdf /\ [][NextPdf]_vars

-----------------------------------------------------------------------------
(* save_results_to_file *)

\* A filename is its components, relative to the working directory or not.
Cwd == <<"work">>
DefaultFilename == [abs |-> FALSE, parts |-> <<"grading_results.json">>]
Filenames ==
    { DefaultFilename,
      [abs |-> FALSE, parts |-> <<"sub", "..", "grading_results.json">>],
      [abs |-> TRUE, parts |-> <<"out", "report.json">>],
      [abs |-> TRUE, parts |-> <<"readonly", "report.json">>] }
\* directories open(filename, 'w') cannot create a file in
UnwritableDirs == {<<"readonly">>}

\* os.path.normpath, on the components
RECURSIVE NormParts(_, _)
NormParts(parts, acc) ==
    IF parts = <<>> THEN acc
    ELSE IF Head(parts) = ".."
         THEN NormParts(Tail(parts),
                        IF acc = <<>> THEN <<>> ELSE SubSeq(acc, 1, Len(acc) - 1))
    ELSE NormParts(Tail(parts), Append(acc, Head(parts)))

\* os.path.abspath(filename) = normpath(join(os.getcwd(), filename))
abspath(filename) ==
    NormParts(IF filename.abs THEN filename.parts ELSE Cwd \o filename.parts, <<>>)

AbsPaths == {abspath(f) : f \in Filenames}

\* mutant: open(filename, 'a'), which keeps what the file holds
open_a(fsys, filename) ==
    LET path == abspath(filename) IN
    IF SubSeq(path, 1, Len(path) - 1) \in UnwritableDirs
    THEN [exc |-> "OSError", fs |-> fsys]
    ELSE [exc |-> "", fs |-> [fsys EXCEPT ![path] = File(fsys[path].data)]]

\* open(filename, 'w'): the file as it is once opened, or an OSError
open_w(fsys, filename) ==
    LET path == abspath(filename) IN
    IF SubSeq(path, 1, Len(path) - 1) \in UnwritableDirs
    THEN [exc |-> "OSError", fs |-> fsys]
    ELSE [exc |-> "", fs |-> [fsys EXCEPT ![path] = File(<<>>)]]

\* f receives data; a disk with room for `space` characters keeps that many
\* and the write raises
write(fsys, filename, data, space) ==
    LET path == abspath(filename)
        old == fsys[path].data
    IN IF Len(data) > space
       THEN [exc |-> "OSError", fs |-> [fsys EXCEPT ![path] = File(old \o SubSeq(data, 1, space))]]
       ELSE [exc |-> "", fs |-> [fsys EXCEPT ![path] = File(old \o data)]]

\* The try block: the exception that ends it ("" if none) and the files after.
\* results_json is [isStr, chars]: json.loads raises TypeError on a non-string.
SaveTry(fsys, results_json, filename, space) ==
    IF ~results_json.isStr THEN [exc |-> "TypeError", fs |-> fsys]
    ELSE LET results == JsonLoads(results_json.chars) IN
         IF ~results.ok THEN [exc |-> "JSONDecodeError", fs |-> fsys]
         ELSE LET opened == open_w(fsys, filename) IN
              IF opened.exc # "" THEN opened
              ELSE write(opened.fs, filename, JsonDumps(results.val, 2, 0), space)

Saved(path) == [kind |-> "saved", detail |-> path]
ErrorSaving(e) == [kind |-> "error", detail |-> <<e>>]

\* mutant: "except ValueError as e"
ExceptValueError(exc) == exc = "JSONDecodeError"

\* "except Exception as e": every exception of the try block is caught
ExceptClause(exc) == TRUE

save_results_to_file(fsys, results_json, filename, space) ==
    LET try == SaveTry(fsys, results_json, filename, space) IN
    IF try.exc = ""
    THEN [fs |-> try.fs, outcome |-> Saved(abspath(filename)), raised |-> FALSE]
    ELSE IF ExceptClause(try.exc)
         THEN [fs |-> try.fs, outcome |-> ErrorSaving(try.exc), raised |-> FALSE]
    ELSE [fs |-> try.fs, outcome |-> NoOutcome, raised |-> TRUE]

\* Inputs
SaveValues ==
    { JNum(12), JStr(<<"a", "}">>), JObj(<<>>),
      JArr(<<JNum(1), JStr(<<>>)>>),
      JObj(<< <<(<<"a">>), JNum(1)>> >>),
      JObj(<< <<(<<"}">>), JArr(<<JNum(0)>>)>>, <<(<<"a">>), JObj(<<>>)>> >>) }
SaveInputs ==
    {Str(JsonDumps(v, -1, 0)) : v \in SaveValues}
      \cup { Str(<<"{", "\"", "a", "\"", ":", "1", ",", "\"", "a", "\"", ":", "[", "]", "}">>),
             Str(<<" ", "[", "1", ",", "\n", "1", "]", " ">>),
             Str(<<"a">>), Str(<<"{", "\"", "a", "\"", "}">>),
             NotAString }
OldData == {<<"a", "a", "a", "a", "a", "a", "a", "a">>}
DiskSpaces == {3, 1000}

InitWriter ==
    /\ comp = "writer"
    /\ pc = "start"
    /\ fs \in [AbsPaths -> {Absent} \cup {File(d) : d \in OldData}]
    /\ nSaves = 0
    /\ call = NoCall
    /\ before = Absent
    /\ outcome = NoOutcome
    /\ raised = FALSE
    /\ IdleJson
    /\ IdleGrade
    /\ IdlePdf
    /\ IdleRun

SaveResults ==
    /\ comp = "writer"
    /\ nSaves < MaxSaves
    /\ \E results_json \in SaveInputs, filename \in Filenames, space \in DiskSpaces :
          LET r == save_results_to_file(fs, results_json, filename, space) IN
          /\ fs' = r.fs
          /\ outcome' = r.outcome
          /\ raised' = r.raised
          /\ call' = [results_json |-> results_json, filename |-> filename,
                       space |-> space]
          /\ before' = fs[abspath(filename)]
          /\ nSaves' = nSaves + 1
    /\ UNCHANGED <<comp, pc, jsonVars, gradeVars, pdfVars, runVars>>

NextWriter == SaveResults
SpecWriter == InitWriter /\ [][NextWriter]_vars

-----------------------------------------------------------------------------
(* The module's start and run_grading_system *)

\* the agents and what each is given
Root == "ExamGradingOrchestrator"
SubAgents ==
    {"DocumentProcessor", "QuestionSchemaAnalyzer", "AnswerEvaluator", "ScoringAgent"}
Agents == {Root} \cup SubAgents
AgentTools(a) ==
    IF a = "DocumentProcessor"
    THEN {"process_question_paper", "process_answer_sheet", "process_textbook"}
    ELSE IF a = "ScoringAgent" THEN {"calculate_grade", "save_results_to_file"}
    ELSE {}

\* mutant: the loop leaves the textbook out
CheckedPathsWithoutTextbook == <<"question_paper", "answer_sheet">>

\* the paths the loop of run_grading_system checks, in its order
CheckedPaths == <<"question_paper", "answer_sheet", "textbook">>

\* What the reasoning service may answer with: text the program never reads
\* before the run ends, and the arguments of the tool calls it asks for.
ResponseTexts ==
    { <<"{", "}">>, FenceJson \o <<"{", "}">> \o Fence, <<"a">>,
      Fence \o <<"a">> \o Fence }
ToolPercentages == {49 * Scale, 90 * Scale}
ToolResults == {Str(<<"{", "}">>), Str(<<"a">>)}
BigDisk == 1000

Init ==
    /\ comp = "run"
    /\ pc = "import"
    /\ credential \in BOOLEAN
    /\ exists \in [DocTypes -> BOOLEAN]
    /\ checkIdx = 0
    /\ reported = ""
    /\ runnerCreated = FALSE
    /\ sessionCreated = FALSE
    /\ llmCalls = 0
    /\ agent = ""
    /\ processed = [d \in DocTypes |-> 0]
    /\ schemaText = <<>>
    /\ nSchema = 0
    /\ nEval = 0
    /\ nGrade = 0
    /\ ret = ""
    /\ exitCode = -1
    /\ fs = [p \in AbsPaths |-> Absent]
    /\ nSaves = 0
    /\ call = NoCall
    /\ before = Absent
    /\ outcome = NoOutcome
    /\ raised = FALSE
    /\ IdleJson
    /\ IdleGrade
    /\ IdlePdf

runRest == <<comp, jsonVars, pdfVars, credential, exists>>

\* module level: "if not config.GEMINI_API_KEY: ... exit(1)", then main()
\* enters run_grading_system
ImportModule ==
    /\ comp = "run"
    /\ pc = "import"
    /\ IF credential
       THEN pc' = "check" /\ checkIdx' = 1 /\ UNCHANGED exitCode
       ELSE pc' = "exited" /\ exitCode' = 1 /\ UNCHANGED checkIdx
    /\ UNCHANGED <<runRest, gradeVars, writerVars, reported, runnerCreated,
                   sessionCreated, llmCalls, agent, processed, schemaText, nSchema,
                   nEval, nGrade, ret>>

\* one turn of "for path, name in [...]": os.path.exists(path), or
\* "NOT FOUND" and return None
CheckFile ==
    /\ comp = "run"
    /\ pc = "check"
    /\ checkIdx <= Len(CheckedPaths)
    /\ IF exists[CheckedPaths[checkIdx]]
       THEN checkIdx' = checkIdx + 1 /\ UNCHANGED <<pc, reported, ret>>
       ELSE /\ reported' = CheckedPaths[checkIdx]
            /\ ret' = "None"
            /\ pc' = "done"
            /\ UNCHANGED checkIdx
    /\ UNCHANGED <<runRest, gradeVars, writerVars, runnerCreated, sessionCreated,
                   llmCalls, agent, processed, schemaText, nSchema, nEval, nGrade,
                   exitCode>>

\* runner = InMemoryRunner(agent=root_agent, app_name="agents")
CreateRunner ==
    /\ comp = "run"
    /\ pc = "check"
    /\ checkIdx > Len(CheckedPaths)
    /\ runnerCreated' = TRUE
    /\ pc' = "session"
    /\ UNCHANGED <<runRest, gradeVars, writerVars, checkIdx, reported, sessionCreated,
                   llmCalls, agent, processed, schemaText, nSchema, nEval, nGrade,
                   ret, exitCode>>

\* session = await runner.session_service.create_session(...); the request
\* is then handed to runner.run_debug, where root_agent answers first
CreateSession ==
    /\ comp = "run"
    /\ pc = "session"
    /\ sessionCreated' = TRUE
    /\ agent' = Root
    /\ pc' = "run"
    /\ UNCHANGED <<runRest, gradeVars, writerVars, checkIdx, reported, runnerCreated,
                   llmCalls, processed, schemaText, nSchema, nEval, nGrade, ret,
                   exitCode>>

\* Inside runner.run_debug every step is one request to the reasoning
\* service, answered for the current agent.  The program leaves the choice of
\* the answer to the service: a transfer to another agent of the tree, a call
\* of one of the agent's tools, or text.

\* the answer hands over to another agent
LlmTransfer ==
    /\ comp = "run"
    /\ pc = "run"
    /\ llmCalls < MaxLlmCalls
    /\ \E b \in Agents \ {agent} : agent' = b
    /\ llmCalls' = llmCalls + 1
    /\ UNCHANGED <<runRest, gradeVars, writerVars, pc, checkIdx, reported,
                   runnerCreated, sessionCreated, processed, schemaText, nSchema,
                   nEval, nGrade, ret, exitCode>>

\* DocumentProcessor calls one of its process_* tools
ToolProcess ==
    /\ comp = "run"
    /\ pc = "run"
    /\ llmCalls < MaxLlmCalls
    /\ agent = "DocumentProcessor"
    /\ \E d \in DocTypes : processed' = [processed EXCEPT ![d] = @ + 1]
    /\ llmCalls' = llmCalls + 1
    /\ UNCHANGED <<runRest, gradeVars, writerVars, pc, checkIdx, reported,
                   runnerCreated, sessionCreated, agent, schemaText, nSchema, nEval,
                   nGrade, ret, exitCode>>

\* QuestionSchemaAnalyzer answers with its schema text and hands over
SchemaResponse ==
    /\ comp = "run"
    /\ pc = "run"
    /\ llmCalls < MaxLlmCalls
    /\ agent = "QuestionSchemaAnalyzer"
    /\ schemaText' \in ResponseTexts
    /\ nSchema' = nSchema + 1
    /\ \E b \in Agents \ {agent} : agent' = b
    /\ llmCalls' = llmCalls + 1
    /\ UNCHANGED <<runRest, gradeVars, writerVars, pc, checkIdx, reported,
                   runnerCreated, sessionCreated, processed, nEval, nGrade, ret,
                   exitCode>>

\* AnswerEvaluator answers with its evaluations and hands over
EvaluationResponse ==
    /\ comp = "run"
    /\ pc = "run"
    /\ llmCalls < MaxLlmCalls
    /\ agent = "AnswerEvaluator"
    /\ nEval' = nEval + 1
    /\ \E b \in Agents \ {agent} : agent' = b
    /\ llmCalls' = llmCalls + 1
    /\ UNCHANGED <<runRest, gradeVars, writerVars, pc, checkIdx, reported,
                   runnerCreated, sessionCreated, processed, schemaText, nSchema,
                   nGrade, ret, exitCode>>

\* ScoringAgent calls calculate_grade
ToolCalculateGrade ==
    /\ comp = "run"
    /\ pc = "run"
    /\ llmCalls < MaxLlmCalls
    /\ agent = "ScoringAgent"
    /\ "calculate_grade" \in AgentTools(agent)
    /\ \E p \in ToolPercentages :
          /\ percentage' = p
          /\ grade' = calculate_grade(p)
    /\ nGrade' = nGrade + 1
    /\ llmCalls' = llmCalls + 1
    /\ UNCHANGED <<runRest, writerVars, pc, checkIdx, reported, runnerCreated,
                   sessionCreated, agent, processed, schemaText, nSchema, nEval, ret,
                   exitCode>>

\* ScoringAgent calls save_results_to_file (filename left at its default)
ToolSaveResults ==
    /\ comp = "run"
    /\ pc = "run"
    /\ llmCalls < MaxLlmCalls
    /\ agent = "ScoringAgent"
    /\ "save_results_to_file" \in AgentTools(agent)
    /\ \E results_json \in ToolResults :
          LET r == save_results_to_file(fs, results_json, DefaultFilename, BigDisk) IN
          /\ fs' = r.fs
          /\ outcome' = r.outcome
          /\ raised' = r.raised
          /\ call' = [results_json |-> results_json, filename |-> DefaultFilename,
                      space |-> BigDisk]
          /\ before' = fs[abspath(DefaultFilename)]
    /\ nSaves' = nSaves + 1
    /\ llmCalls' = llmCalls + 1
    /\ UNCHANGED <<runRest, gradeVars, pc, checkIdx, reported, runnerCreated,
                   sessionCreated, agent, processed, schemaText, nSchema, nEval,
                   nGrade, ret, exitCode>>

\* the answer is text only: run_debug returns its events, and the tail of
\* run_grading_system returns them, or None when the list or its last
\* event's content is empty
LlmFinal ==
    /\ comp = "run"
    /\ pc = "run"
    /\ llmCalls' = llmCalls + 1
    /\ \E response \in {"empty", "no_content", "text"} :
          ret' = IF response = "text" THEN "response" ELSE "None"
    /\ pc' = "done"
    /\ UNCHANGED <<runRest, gradeVars, writerVars, checkIdx, reported, runnerCreated,
                   sessionCreated, agent, processed, schemaText, nSchema, nEval,
                   nGrade, exitCode>>

\* the request fails for good (the retries are used up): "except Exception"
\* prints the error and returns None
LlmRaises ==
    /\ comp = "run"
    /\ pc = "run"
    /\ llmCalls' = llmCalls + 1
    /\ ret' = "None"
    /\ pc' = "done"
    /\ UNCHANGED <<runRest, gradeVars, writerVars, checkIdx, reported, runnerCreated,
                   sessionCreated, agent, processed, schemaText, nSchema, nEval,
                   nGrade, exitCode>>

Next ==
    \/ ImportModule
    \/ CheckFile
    \/ CreateRunner
    \/ CreateSession
    \/ LlmTransfer
    \/ ToolProcess
    \/ SchemaResponse
    \/ EvaluationResponse
    \/ ToolCalculateGrade
    \/ ToolSaveResults
    \/ LlmFinal
    \/ LlmRaises
Spec == Init /\ [][Next]_vars

-----------------------------------------------------------------------------
(* The claims *)

SomeMissing == \E d \in DocTypes : ~exists[d]

\* C1: when one of the three input paths does not exist, the run reports a
\* missing file and returns None, and it never creates the runner or the
\* session, never calls the reasoning service and never runs an extraction.
PreflightGate ==
    (comp = "run" /\ SomeMissing) =>
        /\ ~runnerCreated
        /\ ~sessionCreated
        /\ llmCalls = 0
        /\ \A d \in DocTypes : processed[d] = 0
        /\ pc \in {"import", "exited", "check", "done"}
        /\ pc = "done" => (ret = "None" /\ reported \in DocTypes /\ ~exists[reported])

\* the answer sheet alone is missing, and the run has ended
PreflightGateWitness ==
    /\ comp = "run"
    /\ pc = "done"
    /\ exists["question_paper"] /\ ~exists["answer_sheet"] /\ exists["textbook"]
    /\ reported = "answer_sheet"
    /\ ret = "None"

SchemaUnparsable ==
    nSchema > 0 /\ extract_json_from_text(schemaText).kind # "return"

\* C2: once the schema response holds no parsable JSON, no later phase runs
\* (no evaluation, no grade, no save), nothing is written, and the run ends
\* in failure (None).
SchemaFailureIsFatal ==
    [][SchemaUnparsable =>
          /\ nEval' = nEval
          /\ nGrade' = nGrade
          /\ nSaves' = nSaves
          /\ fs' = fs
          /\ (pc' = "done" => ret' = "None")]_vars

DocsProcessed == \A d \in DocTypes : processed[d] > 0
SchemaReady == nSchema > 0 /\ ~SchemaUnparsable

\* C3: the phases run in the order documents, schema, evaluation, scoring,
\* save: none starts before the one before it produced its output, none is
\* repeated, and save_results_to_file runs only after the grade was computed.
StrictPhaseOrder ==
    [][/\ (processed' # processed =>
              /\ nSchema = 0 /\ nEval = 0 /\ nGrade = 0 /\ nSaves = 0
              /\ \A d \in DocTypes : processed'[d] <= 1)
       /\ (nSchema' # nSchema => DocsProcessed /\ nSchema = 0)
       /\ (nEval' # nEval => SchemaReady /\ nEval = 0)
       /\ (nGrade' # nGrade => nEval > 0 /\ nGrade = 0)
       /\ (nSaves' # nSaves => nGrade > 0)]_vars

\* C4: whenever the extraction failed (file missing, file corrupt, or a page
\* that cannot be read, also after pages that could), the document returned
\* has empty text and char_count 0.
ExtractionFailureYieldsEmptyDocument ==
    (comp = "pdf" /\ pc = "done" /\ failed) =>
        (doc.text = <<>> /\ doc.char_count = 0)

\* C5: calculate_grade returns one of six letters, by the bands
\* [90,oo) A+, [80,90) A, [70,80) B, [60,70) C, [50,60) D, (-oo,50) F.
GradeBands ==
    (comp = "grade" /\ pc = "done") =>
        /\ grade \in {"A+", "A", "B", "C", "D", "F"}
        /\ (grade = "A+") <=> (percentage >= 90 * Scale)
        /\ (grade = "A") <=> (80 * Scale <= percentage /\ percentage < 90 * Scale)
        /\ (grade = "B") <=> (70 * Scale <= percentage /\ percentage < 80 * Scale)
        /\ (grade = "C") <=> (60 * Scale <= percentage /\ percentage < 70 * Scale)
        /\ (grade = "D") <=> (50 * Scale <= percentage /\ percentage < 60 * Scale)
        /\ (grade = "F") <=> (percentage < 50 * Scale)
        /\ (percentage = -(5 * Scale)) => grade = "F"
        /\ (percentage = 150 * Scale) => grade = "A+"

\* a value just below the threshold of 90 was graded A
GradeBandsWitness ==
    /\ comp = "grade"
    /\ pc = "done"
    /\ percentage = 90 * Scale - 1
    /\ grade = "A"

\* C6: the serialisation of a JSON value, as it is or inside a "json"
\* fence, is parsed back to that value, whatever its strings hold.
JsonRoundTrip ==
    (comp = "json" /\ pc = "done" /\ wrap \in {"plain", "indent", "fence_json"}) =>
        (result.kind = "return" /\ PyEq(result.val, jv))

\* C7: a text without recoverable JSON ends in the failure and no value,
\* and a text that holds a JSON object or array outside any fence yields
\* that value.
JsonFoundOutsideFence ==
    (comp = "json" /\ pc = "done") =>
        /\ result.kind \in {"return", "NoJsonFound", "JSONDecodeError"}
        /\ result.kind # "return" => result.val = NoVal
        /\ (wrap = "prose" /\ jv.t \in {"obj", "arr"} /\ ~Contains(text, Fence)) =>
              (result.kind = "return" /\ PyEq(result.val, jv))

SaveInputBad ==
    \/ ~call.results_json.isStr
    \/ ~JsonLoads(call.results_json.chars).ok
SavePathBad == call.filename.abs /\ Head(call.filename.parts) = "readonly"
SaveDiskFull ==
    /\ ~SaveInputBad
    /\ ~SavePathBad
    /\ Len(JsonDumps(JsonLoads(call.results_json.chars).val, 2, 0)) > call.space
\* C8: save_results_to_file never raises; it returns the absolute path of
\* the file it wrote, or an error message when the input is not JSON, the
\* path cannot be written or the disk is full.
SaveReportsOutcome ==
    (comp = "writer" /\ nSaves > 0) =>
        /\ ~raised
        /\ outcome.kind \in {"saved", "error"}
        /\ (SaveInputBad \/ SavePathBad \/ SaveDiskFull) <=> (outcome.kind = "error")
        /\ outcome.kind = "error" => outcome.detail # <<>>
        /\ outcome.kind = "saved" =>
              /\ outcome.detail \in AbsPaths
              /\ \A i \in 1..Len(outcome.detail) : outcome.detail[i] # ".."
              /\ ~call.filename.abs =>
                    SubSeq(outcome.detail, 1, Len(Cwd)) = Cwd
              /\ fs[outcome.detail].exists

\* valid JSON could not be written, and the call returned an error message
SaveReportsOutcomeWitness ==
    /\ comp = "writer"
    /\ nSaves > 0
    /\ ~SaveInputBad
    /\ SavePathBad
    /\ outcome.kind = "error"
    /\ ~raised

\* C9: after a successful save the file parses to the value that was given,
\* whatever the file held before.
SaveRoundTrip ==
    (comp = "writer" /\ nSaves > 0 /\ outcome.kind = "saved") =>
        LET file == fs[abspath(call.filename)]
            read == JsonLoads(file.data)
        IN /\ file.exists
           /\ read.ok
           /\ PyEq(read.val, JsonLoads(call.results_json.chars).val)

\* a second save replaced a longer JSON text an earlier save had written
SaveRoundTripWitness ==
    /\ comp = "writer"
    /\ nSaves = 2
    /\ outcome.kind = "saved"
    /\ before.exists
    /\ JsonLoads(before.data).ok
    /\ Len(before.data) > Len(fs[abspath(call.filename)].data)
    /\ JsonLoads(call.results_json.chars).val.t = "obj"

Occurs(s, pat) == \E i \in 1..Len(s) : StartsAt(s, pat, i)
FirstOcc(s, pat) ==
    CHOOSE i \in 1..Len(s) :
        StartsAt(s, pat, i) /\ \A j \in 1..(i - 1) : ~StartsAt(s, pat, j)
SegmentFrom(s, from) ==
    LET closing == {i \in from..Len(s) : StartsAt(s, Fence, i)} IN
    IF closing = {} THEN SubSeq(s, from, Len(s))
    ELSE SubSeq(s, from, (CHOOSE i \in closing : \A j \in closing : i <= j) - 1)
Opening(s) == {i \in 1..Len(s) : s[i] = "{"}
Closing(s) == {i \in 1..Len(s) : s[i] = "}"}
Decides(res, segment) ==
    IF JsonLoads(segment).ok
    THEN res = Returned(JsonLoads(segment).val)
    ELSE res.kind # "return"
\* C10: the first step that applies decides: the strict parse of the whole
\* text; else the content after the first "json" fence, up to the next
\* fence; else the content after the first fence, up to the next; else the
\* text from the first "{" to the last "}".  A segment that does not parse
\* is a failure, with no later step tried.
StepPriority ==
    (comp = "json" /\ pc = "done") =>
        IF JsonLoads(text).ok THEN result = Returned(JsonLoads(text).val)
        ELSE IF Occurs(text, FenceJson)
             THEN Decides(result, SegmentFrom(text, FirstOcc(text, FenceJson) + Len(FenceJson)))
        ELSE IF Occurs(text, Fence)
             THEN Decides(result, SegmentFrom(text, FirstOcc(text, Fence) + Len(Fence)))
        ELSE IF Opening(text) # {} /\ Closing(text) # {}
                /\ \E i \in Opening(text) : \E j \in Closing(text) : i < j
             THEN LET first == CHOOSE i \in Opening(text) : \A k \in Opening(text) : i <= k
                      last == CHOOSE j \in Closing(text) : \A k \in Closing(text) : k <= j
                  IN IF first < last
                     THEN Decides(result, SubSeq(text, first, last))
                     ELSE result.kind # "return"
        ELSE result.kind # "return"

\* a "json" fence whose content does not parse ended in failure although the
\* text holds an object a later step would have found
StepPriorityWitness ==
    /\ comp = "json"
    /\ pc = "done"
    /\ wrap = "pieces"
    /\ Occurs(text, FenceJson)
    /\ Occurs(text, <<"{", "}">>)
    /\ result.kind = "JSONDecodeError"

====
